---- MODULE Spec2Model ----
(***************************************************************************)
(* H.264 RTP payload engine of aiortc (src/aiortc/codecs/h264.py):         *)
(* the FU-A fragmenter, the STAP-A aggregator, the packetizer driver, the  *)
(* payload descriptor parser and the Annex B start-code scanner.           *)
(*                                                                         *)
(* Bytes are integers 0..255, byte strings are sequences of bytes.  Python *)
(* indices are 0-based: At(s, i) is s[i] and Slice(s, a, b) is s[a:b].     *)
(* H264Encoder and H264Packer hold textually identical _packetize_fu_a,    *)
(* _packetize_stap_a and _packetize; one definition models both.  Their    *)
(* _split_bitstream differ and are told apart by cls.                      *)
(***************************************************************************)
EXTENDS Integers, Sequences, FiniteSets, TLC

VARIABLES
    \* ---- H264Encoder._packetize / H264Packer._packetize and h264_depayload
    packages,             \* the NAL units handed to _packetize, as <<header, length>>
    it_pos,               \* packages_iterator: how many items it has yielded
    package,              \* the local `package` of _packetize (None or a NAL)
    packetized_packages,  \* the list _packetize builds and returns
    pc,                   \* position in _packetize / the depayload loop of the receiver
    depay_pos,            \* how many returned payloads were given to h264_depayload
    annexb,               \* concatenation of the Annex B fragments h264_depayload returned
    depay_failed,         \* indices (1-based) of the payloads parse rejected
    emitted_as,           \* history: the branch that emitted each payload
    \* ---- _packetize_fu_a called on its own
    fu_data, fu_packages, fu_pc,
    \* ---- _packetize_stap_a called on its own
    stap_data, stap_iter, stap_ret, stap_pc,
    \* ---- H264PayloadDescriptor.parse called on its own
    parse_data, parse_ret, parse_pc,
    \* ---- _split_bitstream
    cls, buf, i, scan_pc, yielded,
    nal_units             \* the NAL units buf was written from, None for a raw buffer

packVars ==
    <<packages, it_pos, package, packetized_packages, pc, depay_pos, annexb, depay_failed,
      emitted_as>>
fuVars == <<fu_data, fu_packages, fu_pc>>
stapVars == <<stap_data, stap_iter, stap_ret, stap_pc>>
parseVars == <<parse_data, parse_ret, parse_pc>>
scanVars == <<cls, buf, i, scan_pc, yielded, nal_units>>
vars == <<packVars, fuVars, stapVars, parseVars, scanVars>>

(***************************************************************************)
(* Module constants, h264.py lines 19-27.                                  *)
(***************************************************************************)
PACKET_MAX == 1300
NAL_TYPE_FU_A == 28
NAL_TYPE_STAP_A == 24
NAL_HEADER_SIZE == 1
FU_A_HEADER_SIZE == 2
LENGTH_FIELD_SIZE == 2
STAP_A_HEADER_SIZE == NAL_HEADER_SIZE + LENGTH_FIELD_SIZE

(***************************************************************************)
(* Python primitives on ints and bytes.                                    *)
(***************************************************************************)
RECURSIVE BitAnd(_, _)
BitAnd(a, b) ==
    IF a = 0 \/ b = 0 THEN 0
    ELSE (a % 2) * (b % 2) + 2 * BitAnd(a \div 2, b \div 2)

RECURSIVE BitOr(_, _)
BitOr(a, b) ==
    IF a = 0 THEN b
    ELSE IF b = 0 THEN a
    ELSE (IF a % 2 = 1 \/ b % 2 = 1 THEN 1 ELSE 0) + 2 * BitOr(a \div 2, b \div 2)

Min(a, b) == IF a < b THEN a ELSE b
Max(a, b) == IF a < b THEN b ELSE a

\* s[k] with a 0-based index in range
At(s, k) == s[k + 1]

\* s[a:b] for 0 <= a: the end is clamped to len(s), an empty range is b""
Slice(s, a, b) == SubSeq(s, a + 1, Min(b, Len(s)))

\* struct.pack("!H", n): unsigned 16 bit, big-endian
pack_H(n) == <<n \div 256, n % 256>>

\* struct.unpack_from("!H", data, pos)[0]
unpack_from_H(data, pos) == At(data, pos) * 256 + At(data, pos + 1)

\* math.ceil(a / b) for positive b (the float quotient is exact at these sizes)
ceil_div(a, b) == (a + b - 1) \div b

\* Optional[bytes]
None == [some |-> FALSE, val |-> <<>>]
Some(v) == [some |-> TRUE, val |-> v]

START_CODE == <<0, 0, 0, 1>>

(***************************************************************************)
(* _packetize_fu_a(data), for len(data) >= 2 (a 1-byte NAL divides by      *)
(* zero at num_larger_packets).                                            *)
(***************************************************************************)
fu_indicator(data) == BitOr(BitAnd(At(data, 0), BitOr(128, 96)), NAL_TYPE_FU_A)
fu_header_end(data) == <<fu_indicator(data), BitOr(BitAnd(At(data, 0), 31), 64)>>
fu_header_middle(data) == <<fu_indicator(data), BitAnd(At(data, 0), 31)>>
fu_header_start(data) == <<fu_indicator(data), BitOr(BitAnd(At(data, 0), 31), 128)>>

\* the size of the next fragment: package_size + 1 while num_larger_packets > 0
fu_fragment_size(num_larger_packets, package_size) ==
    IF num_larger_packets > 0 THEN package_size + 1 ELSE package_size

\* the header of a fragment that ends at offset: the end header when it ends the NAL
\* (lines 151-152); the mutant never switches to the end header
fu_select_header_no_end(data, offset, fu_header) == fu_header
fu_select_header(data, offset, fu_header) ==
    IF offset = Len(data) THEN fu_header_end(data) ELSE fu_header

\* the while loop of _packetize_fu_a; it ends with offset >= len(data)
RECURSIVE fu_a_loop(_, _, _, _, _, _)
fu_a_loop(data, offset, num_larger_packets, package_size, fu_header, pkgs) ==
    IF ~(offset < Len(data)) THEN [packages |-> pkgs, offset |-> offset]
    ELSE LET size == fu_fragment_size(num_larger_packets, package_size)
             payload == Slice(data, offset, offset + size)
             offset2 == offset + size
             hdr == fu_select_header(data, offset2, fu_header)
         IN  fu_a_loop(data, offset2,
                       IF num_larger_packets > 0 THEN num_larger_packets - 1
                                                 ELSE num_larger_packets,
                       package_size, fu_header_middle(data),
                       Append(pkgs, hdr \o payload))

fu_num_packets(data) ==
    ceil_div(Len(data) - NAL_HEADER_SIZE, PACKET_MAX - FU_A_HEADER_SIZE)

\* returns [packages, offset]; the assert of line 157 is offset = len(data)
_packetize_fu_a(data) ==
    LET payload_size == Len(data) - NAL_HEADER_SIZE
        num_packets == fu_num_packets(data)
        num_larger_packets == payload_size % num_packets
        package_size == payload_size \div num_packets
    IN  fu_a_loop(data, NAL_HEADER_SIZE, num_larger_packets, package_size,
                  fu_header_start(data), <<>>)

(***************************************************************************)
(* _packetize_stap_a(data, packages_iterator).  The iterator is the        *)
(* sequence of the items it has yet to yield; next() on the empty sequence *)
(* raises StopIteration.  Returns the pair (payload, nalu) and, for the    *)
(* caller's iterator, what is left of it; counter and stap_header are the  *)
(* locals at the return.                                                   *)
(***************************************************************************)
\* lines 174-178: F bit OR-ed in, NRI raised to the NAL's when it is larger;
\* the mutant ORs the NRI in without clearing the old field
stap_update_header_or_only(stap_header, nalu) ==
    BitOr(stap_header, BitAnd(At(nalu, 0), BitOr(128, 96)))
stap_update_header(stap_header, nalu) ==
    LET h1 == BitOr(stap_header, BitAnd(At(nalu, 0), 128))
        nri == BitAnd(At(nalu, 0), 96)
    IN  IF BitAnd(h1, 96) < nri THEN BitOr(BitAnd(h1, 159), nri) ELSE h1

\* the loop condition of line 173; the mutant forgets the NAL's length field
stap_fits_without_length_field(nalu, available_size) ==
    Len(nalu) <= available_size + LENGTH_FIELD_SIZE
stap_fits(nalu, available_size) == Len(nalu) <= available_size

\* next(packages_iterator) of lines 183 and 186; StopIteration sets nalu = None
stap_next(iter) ==
    IF iter = <<>> THEN [nalu |-> None, iter |-> iter]
    ELSE [nalu |-> Some(Head(iter)), iter |-> Tail(iter)]

\* lines 185-186, after the loop: nalu did not fit.  With counter = 0 it is data
\* itself and the next NAL is pulled; otherwise it is the NAL to resume with
\* mutant: the NAL that did not fit is dropped and the one after it returned
stap_unfit_drops_nalu(nalu, iter, counter) == stap_next(iter)
stap_unfit(nalu, iter, counter) ==
    IF counter = 0 THEN stap_next(iter) ELSE [nalu |-> Some(nalu), iter |-> iter]

RECURSIVE stap_a_loop(_, _, _, _, _, _)
stap_a_loop(nalu, iter, available_size, stap_header, counter, payload) ==
    IF stap_fits(nalu, available_size)
    THEN LET h == stap_update_header(stap_header, nalu)
             avail == available_size - (LENGTH_FIELD_SIZE + Len(nalu))
             body == payload \o pack_H(Len(nalu)) \o nalu
             n == stap_next(iter)
         IN  IF n.nalu.some
             THEN stap_a_loop(n.nalu.val, n.iter, avail, h, counter + 1, body)
             ELSE [nalu |-> None, iter |-> n.iter, stap_header |-> h,
                   counter |-> counter + 1, payload |-> body]
    ELSE LET n == stap_unfit(nalu, iter, counter)
         IN  [nalu |-> n.nalu, iter |-> n.iter, stap_header |-> stap_header,
              counter |-> counter, payload |-> payload]

\* lines 190-193: a lone NAL goes out verbatim, two or more as STAP-A;
\* the mutant wraps a lone NAL too
stap_result_wraps_one(data, r) ==
    IF r.counter < 1 THEN data ELSE <<r.stap_header>> \o r.payload
stap_result(data, r) ==
    IF r.counter <= 1 THEN data ELSE <<r.stap_header>> \o r.payload

_packetize_stap_a(data, packages_iterator) ==
    LET r == stap_a_loop(data, packages_iterator, PACKET_MAX - STAP_A_HEADER_SIZE,
                         BitOr(NAL_TYPE_STAP_A, BitAnd(At(data, 0), 224)), 0, <<>>)
    IN  [packetized |-> stap_result(data, r), nalu |-> r.nalu, iter |-> r.iter,
         counter |-> r.counter, stap_header |-> r.stap_header]

(***************************************************************************)
(* H264PayloadDescriptor.parse(data) and h264_depayload(payload).          *)
(* A result is [ok, error, first_fragment, output]; ok = FALSE is the      *)
(* ValueError, error its message.                                          *)
(***************************************************************************)
Raise(exc, msg) ==
    [ok |-> FALSE, exc |-> exc, error |-> msg, first_fragment |-> FALSE, output |-> <<>>]
ParseError(msg) == Raise("ValueError", msg)
ParseOk(ff, out) ==
    [ok |-> TRUE, exc |-> "", error |-> "", first_fragment |-> ff, output |-> out]

\* line 51: the shortest payload parse accepts
parse_min_len_one == NAL_HEADER_SIZE
parse_min_len == 2

\* the while loop of lines 77-86: the offsets of the aggregated NALs, or the error
RECURSIVE stap_offsets(_, _, _)
stap_offsets(data, pos, offsets) ==
    IF ~(pos < Len(data)) THEN [ok |-> TRUE, exc |-> "", error |-> "", offsets |-> offsets]
    ELSE IF Len(data) < pos + LENGTH_FIELD_SIZE
         THEN [ok |-> FALSE, exc |-> "ValueError",
               error |-> "STAP-A length field is truncated", offsets |-> offsets]
         ELSE LET nulu_size == unpack_from_H(data, pos)
                  pos2 == pos + LENGTH_FIELD_SIZE
                  pos3 == pos2 + nulu_size
              IN  IF Len(data) < pos3
                  THEN [ok |-> FALSE, exc |-> "ValueError",
                        error |-> "STAP-A data is truncated",
                        offsets |-> Append(offsets, pos2)]
                  ELSE stap_offsets(data, pos3, Append(offsets, pos2))

\* lines 88-92: one start code and one NAL per pair of consecutive offsets
RECURSIVE stap_output(_, _, _, _)
stap_output(data, offsets, k, output) ==
    IF k >= Len(offsets) THEN output
    ELSE stap_output(data, offsets, k + 1,
                     output \o START_CODE
                            \o Slice(data, offsets[k], offsets[k + 1] - LENGTH_FIELD_SIZE))

\* lines 57-60; the mutant writes the 3-byte start code
parse_single_short_start_code(data) == ParseOk(TRUE, <<0, 0, 1>> \o data)
parse_single(data) == ParseOk(TRUE, START_CODE \o data)

\* lines 61-73; data[pos] with pos = 1 raises IndexError on a 1-byte payload.
\* The mutant rebuilds the NAL header from the FU indicator's own type.
parse_fu_a_indicator_type(data) ==
    LET first_fragment == BitAnd(At(data, 1), 128) # 0
    IN  ParseOk(first_fragment,
                (IF first_fragment THEN START_CODE \o <<At(data, 0)>> ELSE <<>>)
                    \o Slice(data, 2, Len(data)))
parse_fu_a(data) ==
    IF ~(NAL_HEADER_SIZE < Len(data)) THEN Raise("IndexError", "index out of range")
    ELSE LET f_nri == BitAnd(At(data, 0), BitOr(128, 96))
             original_nal_type == BitAnd(At(data, 1), 31)
             first_fragment == BitAnd(At(data, 1), 128) # 0
         IN  ParseOk(first_fragment,
                     (IF first_fragment
                      THEN START_CODE \o <<BitOr(f_nri, original_nal_type)>>
                      ELSE <<>>) \o Slice(data, 2, Len(data)))

\* lines 74-94
parse_stap_a(data) ==
    LET r == stap_offsets(data, NAL_HEADER_SIZE, <<>>)
    IN  IF ~r.ok THEN Raise(r.exc, r.error)
        ELSE ParseOk(TRUE,
                     stap_output(data, Append(r.offsets, Len(data) + LENGTH_FIELD_SIZE),
                                 1, <<>>))

\* lines 46-98; data[0] raises IndexError on an empty payload
parse(data) ==
    IF Len(data) < parse_min_len THEN ParseError("NAL unit is too short")
    ELSE IF Len(data) = 0 THEN Raise("IndexError", "index out of range")
    ELSE LET nal_type == BitAnd(At(data, 0), 31)
         IN  IF nal_type \in 1..23 THEN parse_single(data)
             ELSE IF nal_type = NAL_TYPE_FU_A THEN parse_fu_a(data)
             ELSE IF nal_type = NAL_TYPE_STAP_A THEN parse_stap_a(data)
             ELSE ParseError("NAL unit type is not supported")

\* lines 420-422
h264_depayload(payload) == parse(payload)

(***************************************************************************)
(* _split_bitstream(buf), a generator.  A chain `buf[i] != p0 or buf[i+1]  *)
(* != p1 or ...` is evaluated left to right and stops at the first true    *)
(* comparison; reading past the end of buf raises IndexError.  A chain's   *)
(* value is "T", "F" or "E" (the IndexError).                              *)
(***************************************************************************)
RECURSIVE or_chain(_, _, _, _)
or_chain(b, idx, pat, k) ==
    IF k > Len(pat) THEN "F"
    ELSE IF idx + k - 1 >= Len(b) THEN "E"
    ELSE IF At(b, idx + k - 1) # pat[k] THEN "T"
    ELSE or_chain(b, idx, pat, k + 1)

\* x and y: y is evaluated only when x is true
and_then(x, y) == IF x = "T" THEN y ELSE x

\* lines 201-203 / 361-363: neither 00 00 01 nor 00 00 00 01 at idx
no_start_code_at(b, idx) ==
    and_then(or_chain(b, idx, <<0, 0, 1>>, 1), or_chain(b, idx, <<0, 0, 0, 1>>, 1))

\* lines 211-213 / 371-373: neither 00 00 00 nor 00 00 01 at idx
no_nal_end_at(b, idx) ==
    and_then(or_chain(b, idx, <<0, 0, 0>>, 1), or_chain(b, idx, <<0, 0, 1>>, 1))

\* the first inner loop, lines 201-206 / 361-366
RECURSIVE find_start(_, _)
find_start(b, idx) ==
    LET c == no_start_code_at(b, idx)
    IN  IF c = "E" THEN [st |-> "IndexError", i |-> idx]
        ELSE IF c = "F" THEN [st |-> "found", i |-> idx]
        ELSE IF (idx + 1) + 4 >= Len(b) THEN [st |-> "return", i |-> idx + 1]
        ELSE find_start(b, idx + 1)

\* lines 207-209 / 367-369: step over the start code found at idx (3 bytes, or 4
\* when the 3-byte pattern does not match); the mutant always steps over 3
skip_start_code_three(b, idx) == idx + 3
skip_start_code(b, idx) ==
    IF or_chain(b, idx, <<0, 0, 1>>, 1) = "T" THEN (idx + 1) + 3 ELSE idx + 3

\* the second inner loop, lines 211-222 / 371-382
RECURSIVE find_end(_, _, _)
find_end(b, idx, nal_start) ==
    LET c == no_nal_end_at(b, idx)
    IN  IF c = "E" THEN [st |-> "IndexError", i |-> idx, nal |-> <<>>]
        ELSE IF c = "F" THEN [st |-> "yield", i |-> idx, nal |-> Slice(b, nal_start, idx)]
        ELSE IF (idx + 1) + 3 >= Len(b)
             THEN [st |-> "yield_last", i |-> idx + 1, nal |-> Slice(b, nal_start, Len(b))]
             ELSE find_end(b, idx + 1, nal_start)

\* one turn of `while True` from its head up to the next yield, return or raise.
\* In H264Packer the body is under `if len(buf) >= 1 + 3` (line 360): on a
\* shorter buffer the loop spins without yielding or returning ("hang").
_split_bitstream(c, b, idx) ==
    IF c = "H264Packer" /\ ~(Len(b) >= 1 + 3) THEN [st |-> "hang", i |-> idx, nal |-> <<>>]
    ELSE LET s == find_start(b, idx)
         IN  IF s.st # "found" THEN [st |-> s.st, i |-> s.i, nal |-> <<>>]
             ELSE find_end(b, skip_start_code(b, s.i), skip_start_code(b, s.i))

(***************************************************************************)
(* Inputs of the packetizer: NAL units given by header byte and length.    *)
(* The body bytes differ from place to place so that a shifted or          *)
(* reordered slice shows.  Lengths sit on the decision boundaries: 647+648 *)
(* fill a STAP-A to exactly PACKET_MAX, 648+648 overflow it by one, 1300   *)
(* is the largest single NAL and too long for the aggregator, 2598 needs   *)
(* three uneven FU-A fragments.  Header 0x78 has type 24, outside 1..23.   *)
(***************************************************************************)
MaxNals == 3

NalKinds ==
    { <<65, 1>>, <<103, 2>>, <<120, 2>>, <<37, 647>>, <<101, 648>>,
      <<97, 1300>>, <<69, 2598>> }

NalBytes(d) == [k \in 1..d[2] |-> IF k = 1 THEN d[1] ELSE (7 * k + d[1]) % 256]

NalSeqs(kinds, n) == UNION { [1..m -> kinds] : m \in 0..n }

\* the bytes of the NAL units packages_iterator has yet to yield
iter_rest == [k \in 1..(Len(packages) - it_pos) |-> NalBytes(packages[it_pos + k])]

IdlePack ==
    /\ packages = <<>> /\ it_pos = 0 /\ package = None /\ packetized_packages = <<>>
    /\ pc = "idle" /\ depay_pos = 0 /\ annexb = <<>> /\ depay_failed = {}
    /\ emitted_as = <<>>
IdleFu == fu_data = <<>> /\ fu_packages = <<>> /\ fu_pc = "idle"
IdleStap == stap_data = <<>> /\ stap_iter = <<>> /\ stap_ret = <<>> /\ stap_pc = "idle"
IdleParse == parse_data = <<>> /\ parse_ret = <<>> /\ parse_pc = "idle"
IdleScan ==
    /\ cls = "" /\ buf = <<>> /\ i = 0 /\ scan_pc = "idle" /\ yielded = <<>>
    /\ nal_units = None

(***************************************************************************)
(* _packetize(packages), one action per statement of its loop, followed by *)
(* the receiver calling h264_depayload on each returned payload in order.  *)
(***************************************************************************)
Init ==
    /\ packages \in NalSeqs(NalKinds, MaxNals)
    /\ it_pos = 0
    /\ package = None
    /\ packetized_packages = <<>>
    /\ pc = "start"
    /\ depay_pos = 0
    /\ annexb = <<>>
    /\ depay_failed = {}
    /\ emitted_as = <<>>
    /\ IdleFu /\ IdleStap /\ IdleParse /\ IdleScan

\* next(packages_iterator, None)
iter_next == IF it_pos < Len(packages) THEN Some(NalBytes(packages[it_pos + 1])) ELSE None
iter_advance == IF it_pos < Len(packages) THEN it_pos + 1 ELSE it_pos

\* line 231: the NAL goes to the FU-A fragmenter
needs_fu_a(data) == Len(data) > PACKET_MAX

\* lines 228-229
PacketizeStart ==
    /\ pc = "start"
    /\ package' = iter_next
    /\ it_pos' = iter_advance
    /\ pc' = "loop"
    /\ UNCHANGED <<packages, packetized_packages, depay_pos, annexb, depay_failed,
                   emitted_as>>

\* lines 231-233
PacketizeFuA ==
    /\ pc = "loop"
    /\ package.some
    /\ needs_fu_a(package.val)
    /\ LET r == _packetize_fu_a(package.val)
       IN  IF r.offset = Len(package.val)
           THEN /\ packetized_packages' = packetized_packages \o r.packages
                /\ emitted_as' = emitted_as \o [k \in 1..Len(r.packages) |-> "fu_a"]
                /\ package' = iter_next
                /\ it_pos' = iter_advance
                /\ pc' = "loop"
           ELSE /\ pc' = "AssertionError"
                /\ UNCHANGED <<packetized_packages, package, it_pos, emitted_as>>
    /\ UNCHANGED <<packages, depay_pos, annexb, depay_failed>>

\* lines 234-236
PacketizeStapA ==
    /\ pc = "loop"
    /\ package.some
    /\ ~needs_fu_a(package.val)
    /\ LET r == _packetize_stap_a(package.val, iter_rest)
       IN  /\ packetized_packages' = Append(packetized_packages, r.packetized)
           /\ emitted_as' = Append(emitted_as, IF r.counter <= 1 THEN "single" ELSE "stap_a")
           /\ package' = r.nalu
           /\ it_pos' = Len(packages) - Len(r.iter)
    /\ pc' = "loop"
    /\ UNCHANGED <<packages, depay_pos, annexb, depay_failed>>

\* line 238
PacketizeReturn ==
    /\ pc = "loop"
    /\ ~package.some
    /\ pc' = "returned"
    /\ UNCHANGED <<packages, it_pos, package, packetized_packages, depay_pos, annexb,
                   depay_failed, emitted_as>>

\* h264_depayload on the next returned payload; a ValueError drops the packet
Depayload ==
    /\ pc = "returned"
    /\ depay_pos < Len(packetized_packages)
    /\ LET r == h264_depayload(packetized_packages[depay_pos + 1])
       IN  IF r.ok
           THEN annexb' = annexb \o r.output /\ depay_failed' = depay_failed
           ELSE annexb' = annexb /\ depay_failed' = depay_failed \cup {depay_pos + 1}
    /\ depay_pos' = depay_pos + 1
    /\ UNCHANGED <<packages, it_pos, package, packetized_packages, pc, emitted_as>>

Next ==
    \/ (PacketizeStart /\ UNCHANGED <<fuVars, stapVars, parseVars, scanVars>>)
    \/ (PacketizeFuA /\ UNCHANGED <<fuVars, stapVars, parseVars, scanVars>>)
    \/ (PacketizeStapA /\ UNCHANGED <<fuVars, stapVars, parseVars, scanVars>>)
    \/ (PacketizeReturn /\ UNCHANGED <<fuVars, stapVars, parseVars, scanVars>>)
    \/ (Depayload /\ UNCHANGED <<fuVars, stapVars, parseVars, scanVars>>)

Spec == Init /\ [][Next]_vars

(***************************************************************************)
(* Properties of _packetize and h264_depayload (specification Spec).       *)
(***************************************************************************)
\* the input NAL units, as bytes
InputNals == [k \in 1..Len(packages) |-> NalBytes(packages[k])]

\* 00 00 00 01 ++ N1 ++ 00 00 00 01 ++ N2 ++ ...
RECURSIVE AnnexB(_)
AnnexB(nals) ==
    IF nals = <<>> THEN <<>> ELSE START_CODE \o Head(nals) \o AnnexB(Tail(nals))

NalType(b) == b % 32

TypesSingle == \A k \in 1..Len(packages) : NalType(packages[k][1]) \in 1..23

Depayloaded == pc = "returned" /\ depay_pos = Len(packetized_packages)

\* the (length, NAL) entries of a STAP-A payload, read from position pos (0-based)
RECURSIVE StapEntries(_, _)
StapEntries(p, pos) ==
    IF pos + 2 > Len(p) THEN <<>>
    ELSE LET n == p[pos + 1] * 256 + p[pos + 2]
         IN  <<SubSeq(p, pos + 3, pos + 2 + n)>> \o StapEntries(p, pos + 2 + n)

\* C1 as stated: after every returned payload went through h264_depayload, none
\* was rejected and the fragments concatenate to the start-code-prefixed input,
\* for inputs whose NAL types are all in 1..23 (1-byte NALs included).
C1_RoundTrip ==
    (Depayloaded /\ TypesSingle)
        => (depay_failed = {} /\ annexb = AnnexB(InputNals))

\* C1 amended: the round trip holds whenever no 1-byte NAL went out alone, that
\* is whenever every emitted payload has at least two bytes.
C1_RoundTripAmended ==
    (Depayloaded /\ TypesSingle
       /\ \A k \in 1..Len(packetized_packages) : Len(packetized_packages[k]) >= 2)
        => (depay_failed = {} /\ annexb = AnnexB(InputNals))

\* a 1-byte NAL inside a STAP-A and a fragmented NAL, all depayloaded
C1_Witness ==
    /\ Depayloaded /\ TypesSingle
    /\ \A k \in 1..Len(packetized_packages) : Len(packetized_packages[k]) >= 2
    /\ \E k \in 1..Len(packages) : packages[k][2] = 1
    /\ \E k \in 1..Len(emitted_as) : emitted_as[k] = "stap_a"
    /\ \E k \in 1..Len(emitted_as) : emitted_as[k] = "fu_a"

\* C2: every payload _packetize has emitted is at most PACKET_MAX bytes long.
C2_SizeBound ==
    \A k \in 1..Len(packetized_packages) : Len(packetized_packages[k]) <= PACKET_MAX

\* a STAP-A of exactly PACKET_MAX bytes next to FU-A fragments
C2_Witness ==
    /\ pc = "returned"
    /\ \E k \in 1..Len(emitted_as) :
          emitted_as[k] = "stap_a" /\ Len(packetized_packages[k]) = PACKET_MAX
    /\ \E k \in 1..Len(emitted_as) : emitted_as[k] = "fu_a"

\* C4: with input types in 1..23, every emitted payload of type 24 holds at least
\* two entries, and a payload that left the aggregator with a single NAL is that
\* input NAL verbatim (its type is in 1..23, not 24).
C4_StapMinimum ==
    TypesSingle =>
        \A k \in 1..Len(packetized_packages) :
            LET p == packetized_packages[k]
            IN  /\ NalType(p[1]) = NAL_TYPE_STAP_A => Len(StapEntries(p, 1)) >= 2
                /\ emitted_as[k] = "single" =>
                      /\ NalType(p[1]) \in 1..23
                      /\ \E j \in 1..Len(packages) : p = NalBytes(packages[j])

\* an aggregate followed by a NAL that did not fit and went out alone
C4_Witness ==
    /\ pc = "returned" /\ TypesSingle
    /\ \E k \in 1..Len(emitted_as) : emitted_as[k] = "stap_a"
    /\ \E k \in 2..Len(emitted_as) :
          emitted_as[k] = "single" /\ emitted_as[k - 1] = "stap_a"
          /\ Len(packetized_packages[k]) <= PACKET_MAX - STAP_A_HEADER_SIZE

\* the NAL units an output list carries, in order, read off by the branch that
\* emitted each payload: a single NAL, the entries of a STAP-A, or the run of
\* FU-A fragments from the S fragment to the E fragment.  `cur` is the run being
\* reassembled; <<-1>> marks an output that is no such list.
RECURSIVE Carried(_, _, _, _)
Carried(out, how, k, cur) ==
    IF k > Len(out) THEN (IF cur = <<>> THEN <<>> ELSE <<<<-1>>>>)
    ELSE LET p == out[k]
         IN  IF how[k] = "fu_a"
             THEN LET s == p[2] \div 128 = 1
                      e == (p[2] \div 64) % 2 = 1
                      hdr == (p[1] \div 32) * 32 + (p[2] % 32)
                      tail == SubSeq(p, 3, Len(p))
                      run == IF s THEN <<hdr>> \o tail ELSE cur \o tail
                  IN  IF (s /\ cur # <<>>) \/ (~s /\ cur = <<>>) \/ (s /\ e)
                      THEN <<<<-1>>>>
                      ELSE IF e THEN <<run>> \o Carried(out, how, k + 1, <<>>)
                           ELSE Carried(out, how, k + 1, run)
             ELSE IF cur # <<>> THEN <<<<-1>>>>
             ELSE IF how[k] = "stap_a"
                  THEN StapEntries(p, 1) \o Carried(out, how, k + 1, <<>>)
                  ELSE <<p>> \o Carried(out, how, k + 1, <<>>)

\* the NAL pulled from the cursor and not yet emitted, then what the cursor holds
Pending == (IF package.some THEN <<package.val>> ELSE <<>>) \o iter_rest

\* C10: at every turn of the driver's loop the NALs carried by the output so far,
\* followed by the pulled NAL and the rest of the cursor, are the input in order
\* (nothing dropped, nothing twice), and the driver returns only with the cursor
\* exhausted and nothing pulled.
C10_OrderNoLoss ==
    /\ pc \in {"loop", "returned"} =>
          Carried(packetized_packages, emitted_as, 1, <<>>) \o Pending = InputNals
    /\ pc = "returned" => (it_pos = Len(packages) /\ ~package.some)

\* the aggregator handed back a NAL it had pulled and not aggregated, and the
\* driver went on to emit it; all three carriers occur
C10_Witness ==
    /\ pc = "returned"
    /\ \E k \in 2..Len(emitted_as) : emitted_as[k - 1] = "stap_a" /\ emitted_as[k] # "stap_a"
    /\ Len(packages) = 3

(***************************************************************************)
(* _packetize_fu_a on its own (specification FuSpec).                      *)
(***************************************************************************)
MaxFuExtra == 12

FuHeaders == {101, 1, 255, 28}

\* lengths up to MaxFuExtra bytes past PACKET_MAX, lengths around the step from
\* two to three fragments, and two lengths the driver would not fragment
FuLengths ==
    {2, PACKET_MAX} \cup (PACKET_MAX + 1)..(PACKET_MAX + MaxFuExtra)
        \cup (2 * (PACKET_MAX - FU_A_HEADER_SIZE))..(2 * (PACKET_MAX - FU_A_HEADER_SIZE) + 3)

FuInit ==
    /\ \E h \in FuHeaders, n \in FuLengths : fu_data = NalBytes(<<h, n>>)
    /\ fu_packages = <<>>
    /\ fu_pc = "call"
    /\ IdlePack /\ IdleStap /\ IdleParse /\ IdleScan

FuCall ==
    /\ fu_pc = "call"
    /\ LET r == _packetize_fu_a(fu_data)
       IN  IF r.offset = Len(fu_data)
           THEN fu_packages' = r.packages /\ fu_pc' = "returned"
           ELSE fu_packages' = <<>> /\ fu_pc' = "AssertionError"
    /\ UNCHANGED fu_data

FuNext == FuCall /\ UNCHANGED <<packVars, stapVars, parseVars, scanVars>>

FuSpec == FuInit /\ [][FuNext]_vars

SBit(p) == (p[2] \div 128) % 2 = 1
EBit(p) == (p[2] \div 64) % 2 = 1

RECURSIVE FuTails(_)
FuTails(pkgs) ==
    IF pkgs = <<>> THEN <<>>
    ELSE SubSeq(Head(pkgs), 3, Len(Head(pkgs))) \o FuTails(Tail(pkgs))

\* C3: for a NAL longer than PACKET_MAX the call returns (no assertion fails) at
\* least two packets whose tails after the two header bytes concatenate to N[1:];
\* the first has S=1 and E=0, the last E=1 and S=0, every one between has
\* neither, and none has both.
C3_FuFragmentLaw ==
    Len(fu_data) > PACKET_MAX =>
        /\ fu_pc # "AssertionError"
        /\ fu_pc = "returned" =>
              /\ Len(fu_packages) >= 2
              /\ FuTails(fu_packages) = SubSeq(fu_data, 2, Len(fu_data))
              /\ SBit(fu_packages[1]) /\ ~EBit(fu_packages[1])
              /\ EBit(fu_packages[Len(fu_packages)]) /\ ~SBit(fu_packages[Len(fu_packages)])
              /\ \A k \in 2..(Len(fu_packages) - 1) :
                    ~SBit(fu_packages[k]) /\ ~EBit(fu_packages[k])
              /\ \A k \in 1..Len(fu_packages) : ~(SBit(fu_packages[k]) /\ EBit(fu_packages[k]))

\* three fragments of uneven sizes
C3_Witness ==
    /\ fu_pc = "returned"
    /\ Len(fu_data) > PACKET_MAX
    /\ Len(fu_packages) = 3
    /\ Len(fu_packages[1]) > Len(fu_packages[3])

(***************************************************************************)
(* _packetize_stap_a on its own (specification StapSpec): 1-byte NALs with *)
(* every F / NRI combination, and two NALs too long to join an aggregate.  *)
(***************************************************************************)
MaxStapIter == 2

StapKinds ==
    { <<1, 1>>, <<33, 1>>, <<65, 1>>, <<97, 1>>, <<129, 1>>, <<161, 1>>, <<193, 1>>,
      <<225, 1>>, <<225, 1296>>, <<1, 1296>> }

StapInit ==
    /\ \E d \in StapKinds : stap_data = NalBytes(d)
    /\ \E ds \in NalSeqs(StapKinds, MaxStapIter) :
          stap_iter = [k \in 1..Len(ds) |-> NalBytes(ds[k])]
    /\ stap_ret = <<>>
    /\ stap_pc = "call"
    /\ IdlePack /\ IdleFu /\ IdleParse /\ IdleScan

StapCall ==
    /\ stap_pc = "call"
    /\ stap_ret' = _packetize_stap_a(stap_data, stap_iter)
    /\ stap_pc' = "returned"
    /\ UNCHANGED <<stap_data, stap_iter>>

StapNext == StapCall /\ UNCHANGED <<packVars, fuVars, parseVars, scanVars>>

StapSpec == StapInit /\ [][StapNext]_vars

Nri(b) == ((b \div 32) % 4) * 32
FBit(b) == (b \div 128) * 128

RECURSIVE MaxNri(_)
MaxNri(nals) ==
    IF nals = <<>> THEN 0 ELSE Max(Nri(Head(nals)[1]), MaxNri(Tail(nals)))

RECURSIVE OrF(_)
OrF(nals) ==
    IF nals = <<>> THEN 0 ELSE Max(FBit(Head(nals)[1]), OrF(Tail(nals)))

\* C5: a returned STAP-A packet (counter >= 2) has type 24, the largest NRI of
\* the NALs it holds and the OR of their F bits; the NALs it holds are the first
\* `counter` of data and the iterator's items, so the returned next NAL adds
\* nothing.
C5_StapNriLaw ==
    (stap_pc = "returned" /\ stap_ret.counter >= 2) =>
        LET p == stap_ret.packetized
            held == StapEntries(p, 1)
        IN  /\ held = SubSeq(<<stap_data>> \o stap_iter, 1, stap_ret.counter)
            /\ p[1] % 32 = 24
            /\ Nri(p[1]) = MaxNri(held)
            /\ FBit(p[1]) = OrF(held)

\* the NAL handed back has F set and a larger NRI than any aggregated one, and
\* the first aggregated NAL has a lower NRI than a later one
C5_Witness ==
    /\ stap_pc = "returned" /\ stap_ret.counter >= 2
    /\ stap_ret.nalu.some
    /\ FBit(stap_ret.nalu.val[1]) = 128 /\ FBit(stap_ret.packetized[1]) = 0
    /\ Nri(stap_ret.nalu.val[1]) > Nri(stap_ret.packetized[1])
    /\ Nri(stap_data[1]) < Nri(stap_ret.packetized[1])

(***************************************************************************)
(* H264PayloadDescriptor.parse on its own (specification ParseSpec): every *)
(* byte string up to MaxData over ParseBytes, and STAP-A payloads with a   *)
(* body up to MaxStapBody over StapBodyBytes.                              *)
(***************************************************************************)
MaxData == 4
MaxStapBody == 6

\* 0x00, types 1 and 2, STAP-A, FU-A with NRI 3, type 25, and 0x85 (F set, type
\* 5; as an FU header: S set)
ParseBytes == {0, 1, 2, 24, 124, 25, 133}
StapBodyBytes == {0, 1, 2, 101}

ParseInputs ==
    NalSeqs(ParseBytes, MaxData)
        \cup { <<24>> \o b : b \in NalSeqs(StapBodyBytes, MaxStapBody) }

ParseInit ==
    /\ parse_data \in ParseInputs
    /\ parse_ret = <<>>
    /\ parse_pc = "call"
    /\ IdlePack /\ IdleFu /\ IdleStap /\ IdleScan

ParseCall ==
    /\ parse_pc = "call"
    /\ parse_ret' = parse(parse_data)
    /\ parse_pc' = "returned"
    /\ UNCHANGED parse_data

ParseNext == ParseCall /\ UNCHANGED <<packVars, fuVars, stapVars, scanVars>>

ParseSpec == ParseInit /\ [][ParseNext]_vars

\* C8 as stated: every payload of at least one byte whose type is in 1..23 is
\* accepted and returned behind a 4-byte start code, first_fragment true.
C8_SingleNal ==
    (parse_pc = "returned" /\ Len(parse_data) >= 1 /\ NalType(parse_data[1]) \in 1..23)
        => /\ parse_ret.ok
           /\ parse_ret.output = START_CODE \o parse_data
           /\ parse_ret.first_fragment

\* C8 amended: the same for payloads of at least two bytes.
C8_SingleNalAmended ==
    (parse_pc = "returned" /\ Len(parse_data) >= 2 /\ NalType(parse_data[1]) \in 1..23)
        => /\ parse_ret.ok
           /\ parse_ret.output = START_CODE \o parse_data
           /\ parse_ret.first_fragment

\* a 2-byte-or-longer single NAL returned behind the 4-byte start code
C8_Witness ==
    /\ parse_pc = "returned" /\ Len(parse_data) >= 2 /\ NalType(parse_data[1]) \in 1..23
    /\ parse_ret.ok /\ Len(parse_ret.output) = Len(parse_data) + 4

\* a STAP-A entry that does not fit: at pos < len fewer than 2 bytes remain, or
\* the declared length exceeds what follows the length field
RECURSIVE StapTruncated(_, _)
StapTruncated(data, pos) ==
    IF pos >= Len(data) THEN FALSE
    ELSE IF Len(data) - pos < 2 THEN TRUE
    ELSE LET n == data[pos + 1] * 256 + data[pos + 2]
         IN  IF n > Len(data) - (pos + 2) THEN TRUE ELSE StapTruncated(data, pos + 2 + n)

ShouldFail(data) ==
    \/ Len(data) < 2
    \/ NalType(data[1]) \notin (1..23) \cup {24, 28}
    \/ NalType(data[1]) = 24 /\ StapTruncated(data, 1)

\* C9: parse returns or raises ValueError, nothing else; it raises exactly on a
\* payload shorter than 2 bytes, a type outside 1..23, 24 and 28, or a STAP-A
\* with a truncated length field or truncated data; an FU-A payload of 2 bytes
\* or more is accepted.
C9_ErrorTaxonomy ==
    parse_pc = "returned" =>
        /\ parse_ret.exc \in {"", "ValueError"}
        /\ parse_ret.ok <=> ~ShouldFail(parse_data)
        /\ (Len(parse_data) >= 2 /\ NalType(parse_data[1]) = 28) => parse_ret.ok

\* a STAP-A whose second entry declares more bytes than follow
C9_Witness ==
    /\ parse_pc = "returned"
    /\ ~parse_ret.ok
    /\ parse_ret.error = "STAP-A data is truncated"
    /\ Len(parse_data) >= 6
    /\ parse_data[2] * 256 + parse_data[3] = 1

(***************************************************************************)
(* _split_bitstream, resumed until it returns (specification ScanSpec).    *)
(* Buffers are written from NAL units behind 4-byte start codes, or are    *)
(* any byte string up to MaxBuf.                                           *)
(***************************************************************************)
MaxScanNals == 2
MaxNalLen == 2
MaxBuf == 5

ScanBytes == {0, 1, 101}

ScanNals == NalSeqs(ScanBytes, MaxNalLen) \ {<<>>}

ScanInit ==
    /\ cls \in {"H264Encoder", "H264Packer"}
    /\ \/ \E ns \in NalSeqs(ScanNals, MaxScanNals) \ {<<>>} :
             nal_units = Some(ns) /\ buf = AnnexB(ns)
       \/ nal_units = None /\ buf \in NalSeqs(ScanBytes, MaxBuf)
    /\ i = 0
    /\ scan_pc = "created"
    /\ yielded = <<>>
    /\ IdlePack /\ IdleFu /\ IdleStap /\ IdleParse

\* next() on the generator, not yet started or suspended at the yield of line
\* 222 / 382
ScanResume ==
    /\ scan_pc \in {"created", "suspended"}
    /\ LET r == _split_bitstream(cls, buf, i)
       IN  /\ i' = r.i
           /\ yielded' = IF r.st \in {"yield", "yield_last"} THEN Append(yielded, r.nal)
                                                              ELSE yielded
           /\ scan_pc' = CASE r.st = "yield" -> "suspended"
                           [] r.st = "yield_last" -> "suspended_last"
                           [] r.st = "return" -> "returned"
                           [] OTHER -> r.st
    /\ UNCHANGED <<cls, buf, nal_units>>

\* next() on the generator suspended at the yield of line 219 / 379: it returns
ScanReturn ==
    /\ scan_pc = "suspended_last"
    /\ scan_pc' = "returned"
    /\ UNCHANGED <<cls, buf, i, yielded, nal_units>>

ScanNext ==
    \/ (ScanResume /\ UNCHANGED <<packVars, fuVars, stapVars, parseVars>>)
    \/ (ScanReturn /\ UNCHANGED <<packVars, fuVars, stapVars, parseVars>>)

ScanSpec == ScanInit /\ [][ScanNext]_vars

\* does pat occur in s
Occurs(pat, s) ==
    \E k \in 0..(Len(s) - Len(pat)) : SubSeq(s, k + 1, k + Len(pat)) = pat

NoStartCode(n) == ~Occurs(<<0, 0, 1>>, n)

\* C6 as stated: a buffer written from NAL units none of which contains 00 00 01
\* (hence none contains 00 00 00 01), once scanned to the end, has yielded
\* exactly those NAL units.
C6_ScannerIdempotence ==
    (nal_units.some /\ \A k \in 1..Len(nal_units.val) : NoStartCode(nal_units.val[k])
       /\ scan_pc = "returned")
        => yielded = nal_units.val

\* a NAL unit the scanner gives back whole: no start code in it, no 00 00 00 in
\* it, and its last byte is not 00
CleanNal(n) ==
    /\ NoStartCode(n)
    /\ ~Occurs(<<0, 0, 0>>, n)
    /\ n[Len(n)] # 0

\* C6 amended: the same for one or more NAL units none of which ends in 00 or
\* contains 00 00 00.
C6_ScannerIdempotenceAmended ==
    (nal_units.some /\ \A k \in 1..Len(nal_units.val) : CleanNal(nal_units.val[k]))
        => /\ scan_pc \notin {"IndexError", "hang"}
           /\ scan_pc = "returned" => yielded = nal_units.val

\* two NAL units scanned back, the first with a zero inside
C6_Witness ==
    /\ scan_pc = "returned"
    /\ nal_units.some
    /\ \A k \in 1..Len(nal_units.val) : CleanNal(nal_units.val[k])
    /\ Len(nal_units.val) = 2
    /\ nal_units.val[1][1] = 0
    /\ yielded = nal_units.val

\* C7: the scanner never raises and never spins, and on a buffer shorter than 4
\* bytes it yields nothing.
C7_ScannerTotality ==
    /\ scan_pc \notin {"IndexError", "hang"}
    /\ Len(buf) < 4 => yielded = <<>>

====
